---- MODULE Spec2Model ----
(***************************************************************************)
(* A model of mqtt2influxdb: the event loop of main (src/src/main.rs) that *)
(* routes every MQTT publish to the first configuration entry whose topic  *)
(* filter matches, extracts an InfluxDB point from the payload             *)
(* (Fields::extract) and writes it to InfluxDB. src/src/config.rs holds    *)
(* the same types and the same extract, line for line.                     *)
(*                                                                         *)
(* Rust Strings and byte slices are sequences of one-byte symbols: an      *)
(* ASCII byte is the one-character string of its character, a byte above   *)
(* 0x7F is the string "x" followed by its two hex digits ("xC3").          *)
(***************************************************************************)
EXTENDS Integers, Sequences, FiniteSets, TLC

\* ------------------------------------------------------------------ bounds

\* Number of notifications the event loop polls in one behaviour.
MaxEvents == 2

\* Longest configuration (entries drawn, in every order, from EntryPool).
MaxEntries == 2

\* ------------------------------------------------------------ text helpers

Digit == <<"0", "1", "2", "3", "4", "5", "6", "7", "8", "9">>

IsDigit(c) == \E d \in 1..10 : Digit[d] = c

DigitVal(c) == (CHOOSE d \in 1..10 : Digit[d] = c) - 1

RECURSIVE SplitFrom(_, _, _, _, _)
SplitFrom(s, sep, i, cur, acc) ==
    IF i > Len(s) THEN Append(acc, cur)
    ELSE IF s[i] = sep THEN SplitFrom(s, sep, i + 1, <<>>, Append(acc, cur))
    ELSE SplitFrom(s, sep, i + 1, Append(cur, s[i]), acc)

\* str::split(char): the pieces between the separators; "" gives [""].
Split(s, sep) == SplitFrom(s, sep, 1, <<>>, <<>>)

RECURSIVE DigitsValue(_, _, _)
DigitsValue(s, i, acc) ==
    IF i > Len(s) THEN acc
    ELSE DigitsValue(s, i + 1, acc * 10 + DigitVal(s[i]))

\* str::parse::<usize>: an optional "+", then one or more decimal digits.
\* (No segment of the model is long enough to overflow usize.)
ParseUsize(p) ==
    LET body == IF Len(p) > 0 /\ p[1] = "+" THEN SubSeq(p, 2, Len(p)) ELSE p
    IN  IF Len(body) > 0 /\ \A i \in 1..Len(body) : IsDigit(body[i])
        THEN [ok |-> TRUE, v |-> DigitsValue(body, 1, 0)]
        ELSE [ok |-> FALSE, v |-> 0]

RECURSIVE NatDigits(_)
NatDigits(n) ==
    IF n < 10 THEN <<Digit[n + 1]>>
    ELSE Append(NatDigits(n \div 10), Digit[(n % 10) + 1])

\* Byte order of the characters that occur in object keys of the model.
Ord(c) ==
    CASE c = "a" -> 97 [] c = "b" -> 98 [] c = "c" -> 99
      [] c = "u" -> 117 [] c = "v" -> 118 [] c = "x" -> 120
      [] c = "z" -> 122 [] OTHER -> 0

RECURSIVE StrLess(_, _)
StrLess(a, b) ==
    IF Len(b) = 0 THEN FALSE
    ELSE IF Len(a) = 0 THEN TRUE
    ELSE IF Ord(a[1]) # Ord(b[1]) THEN Ord(a[1]) < Ord(b[1])
    ELSE StrLess(Tail(a), Tail(b))

\* ------------------------------------------------------- serde_json::Value

\* enum Value: a record whose k names the variant.
JNull == [k |-> "null"]

JBool(b) == [k |-> "bool", b |-> b]

\* An integer literal (Number::PosInt / NegInt); n counts tenths.
JInt(i) == [k |-> "number", fl |-> FALSE, n |-> 10 * i]

\* A fractional literal (Number::Float) of t tenths.
JFloat(t) == [k |-> "number", fl |-> TRUE, n |-> t]

JStr(s) == [k |-> "string", s |-> s]

JArr(items) == [k |-> "array", items |-> items]

\* A Map<String, Value>: keys in ascending order, items alongside.
JObj(keys, items) == [k |-> "object", keys |-> keys, items |-> items]

HasKey(o, p) == \E i \in 1..Len(o.keys) : o.keys[i] = p

GetKey(o, p) == o.items[CHOOSE i \in 1..Len(o.keys) : o.keys[i] = p]

\* Map::insert: replaces the value of a key that is present, else inserts
\* the key at its place in the order.
MapInsert(o, key, v) ==
    IF HasKey(o, key)
    THEN LET i == CHOOSE j \in 1..Len(o.keys) : o.keys[j] = key
         IN  [o EXCEPT !.items[i] = v]
    ELSE LET n == Cardinality({j \in 1..Len(o.keys) : StrLess(o.keys[j], key)})
         IN  [o EXCEPT
                !.keys = SubSeq(o.keys, 1, n) \o <<key>> \o SubSeq(o.keys, n + 1, Len(o.keys)),
                !.items = SubSeq(o.items, 1, n) \o <<v>> \o SubSeq(o.items, n + 1, Len(o.items))]

\* ------------------------------------------------- serde_json::to_string

Quote == "\""

Backslash == "\\"

RECURSIVE EscapeFrom(_, _)
EscapeFrom(s, i) ==
    IF i > Len(s) THEN <<>>
    ELSE (IF s[i] = Quote \/ s[i] = Backslash THEN <<Backslash, s[i]>> ELSE <<s[i]>>)
         \o EscapeFrom(s, i + 1)

StringText(s) == <<Quote>> \o EscapeFrom(s, 1) \o <<Quote>>

\* itoa for an integer literal, ryu for a fractional one ("5" and "5.0").
NumberText(v) ==
    LET m == IF v.n < 0 THEN -v.n ELSE v.n
        sign == IF v.n < 0 THEN <<"-">> ELSE <<>>
    IN  IF v.fl THEN sign \o NatDigits(m \div 10) \o <<".">> \o NatDigits(m % 10)
        ELSE sign \o NatDigits(m \div 10)

RECURSIVE to_string(_)
RECURSIVE ItemsText(_, _)
RECURSIVE MembersText(_, _)
to_string(v) ==
    CASE v.k = "null" -> <<"n", "u", "l", "l">>
      [] v.k = "bool" -> IF v.b THEN <<"t", "r", "u", "e">> ELSE <<"f", "a", "l", "s", "e">>
      [] v.k = "number" -> NumberText(v)
      [] v.k = "string" -> StringText(v.s)
      [] v.k = "array" -> <<"[">> \o ItemsText(v.items, 1) \o <<"]">>
      [] v.k = "object" -> <<"{">> \o MembersText(v, 1) \o <<"}">>

ItemsText(items, i) ==
    IF i > Len(items) THEN <<>>
    ELSE (IF i > 1 THEN <<",">> ELSE <<>>) \o to_string(items[i]) \o ItemsText(items, i + 1)

MembersText(o, i) ==
    IF i > Len(o.keys) THEN <<>>
    ELSE (IF i > 1 THEN <<",">> ELSE <<>>) \o StringText(o.keys[i]) \o <<":">>
         \o to_string(o.items[i]) \o MembersText(o, i + 1)

\* ------------------------------------------------------ std::str::from_utf8

\* The bytes above 0x7F that payloads of the model hold.
Lead2 == {"xC2", "xC3"}

Lead3 == {"xE2"}

Cont == {"x80", "xA9", "xBF"}

HighBytes == Lead2 \cup Lead3 \cup Cont \cup {"xC0", "xFF"}

RECURSIVE ValidUtf8From(_, _)
ValidUtf8From(s, i) ==
    IF i > Len(s) THEN TRUE
    ELSE IF s[i] \notin HighBytes THEN ValidUtf8From(s, i + 1)
    ELSE IF s[i] \in Lead2
         THEN i + 1 <= Len(s) /\ s[i + 1] \in Cont /\ ValidUtf8From(s, i + 2)
    ELSE IF s[i] \in Lead3
         THEN i + 2 <= Len(s) /\ s[i + 1] \in Cont /\ s[i + 2] \in Cont
              /\ ValidUtf8From(s, i + 3)
    ELSE FALSE

\* from_utf8: Ok(the same bytes as a str) when they are well-formed UTF-8.
from_utf8(bytes) == [ok |-> ValidUtf8From(bytes, 1), v |-> bytes]

\* --------------------------------------------------- serde_json::from_slice

At(s, i) == IF i >= 1 /\ i <= Len(s) THEN s[i] ELSE ""

ParseFail == [ok |-> FALSE, next |-> 0]

ParseOk(v, next) == [ok |-> TRUE, v |-> v, next |-> next]

RECURSIVE SkipWs(_, _)
SkipWs(s, i) == IF At(s, i) = " " THEN SkipWs(s, i + 1) ELSE i

IsLit(s, i, lit) ==
    /\ i + Len(lit) - 1 <= Len(s)
    /\ SubSeq(s, i, i + Len(lit) - 1) = lit

RECURSIVE DigitsEnd(_, _)
DigitsEnd(s, i) == IF IsDigit(At(s, i)) THEN DigitsEnd(s, i + 1) ELSE i

\* A string body from position i (after the opening quote) to its closing quote.
RECURSIVE ParseString(_, _, _)
ParseString(s, i, acc) ==
    IF i > Len(s) THEN ParseFail
    ELSE IF s[i] = Quote THEN ParseOk(JStr(acc), i + 1)
    ELSE IF s[i] = Backslash
         THEN IF At(s, i + 1) = Quote \/ At(s, i + 1) = Backslash
              THEN ParseString(s, i + 2, Append(acc, s[i + 1]))
              ELSE ParseFail
    ELSE ParseString(s, i + 1, Append(acc, s[i]))

\* -?int(.frac)?: no leading zero; the numbers of the model have at most one
\* fractional digit and no exponent. "-0" is the float -0.0.
ParseNumber(s, i) ==
    LET neg == At(s, i) = "-"
        start == IF neg THEN i + 1 ELSE i
        e == IF At(s, start) = "0" THEN start + 1 ELSE DigitsEnd(s, start)
        whole == DigitsValue(SubSeq(s, start, e - 1), 1, 0)
        sgn == IF neg THEN -1 ELSE 1
    IN  IF e = start \/ IsDigit(At(s, e)) THEN ParseFail
        ELSE IF At(s, e) = "."
             THEN IF IsDigit(At(s, e + 1)) /\ ~IsDigit(At(s, e + 2))
                  THEN ParseOk(JFloat(sgn * (10 * whole + DigitVal(s[e + 1]))), e + 2)
                  ELSE ParseFail
        ELSE IF neg /\ whole = 0 THEN ParseOk(JFloat(0), e)
        ELSE ParseOk(JInt(sgn * whole), e)

RECURSIVE ParseValue(_, _)
RECURSIVE ParseElems(_, _, _)
RECURSIVE ParseMembers(_, _, _)
ParseValue(s, i) ==
    LET j == SkipWs(s, i)
        c == At(s, j)
    IN  CASE c = "n" -> IF IsLit(s, j, <<"n", "u", "l", "l">>)
                        THEN ParseOk(JNull, j + 4) ELSE ParseFail
          [] c = "t" -> IF IsLit(s, j, <<"t", "r", "u", "e">>)
                        THEN ParseOk(JBool(TRUE), j + 4) ELSE ParseFail
          [] c = "f" -> IF IsLit(s, j, <<"f", "a", "l", "s", "e">>)
                        THEN ParseOk(JBool(FALSE), j + 5) ELSE ParseFail
          [] c = Quote -> ParseString(s, j + 1, <<>>)
          [] c = "[" -> IF At(s, SkipWs(s, j + 1)) = "]"
                        THEN ParseOk(JArr(<<>>), SkipWs(s, j + 1) + 1)
                        ELSE ParseElems(s, j + 1, <<>>)
          [] c = "{" -> IF At(s, SkipWs(s, j + 1)) = "}"
                        THEN ParseOk(JObj(<<>>, <<>>), SkipWs(s, j + 1) + 1)
                        ELSE ParseMembers(s, j + 1, JObj(<<>>, <<>>))
          [] c = "-" \/ IsDigit(c) -> ParseNumber(s, j)
          [] OTHER -> ParseFail

ParseElems(s, i, acc) ==
    LET r == ParseValue(s, i)
        j == SkipWs(s, r.next)
    IN  IF ~r.ok THEN ParseFail
        ELSE IF At(s, j) = "," THEN ParseElems(s, j + 1, Append(acc, r.v))
        ELSE IF At(s, j) = "]" THEN ParseOk(JArr(Append(acc, r.v)), j + 1)
        ELSE ParseFail

ParseMembers(s, i, obj) ==
    LET j == SkipWs(s, i)
        key == IF At(s, j) = Quote THEN ParseString(s, j + 1, <<>>) ELSE ParseFail
        c == SkipWs(s, key.next)
        r == IF key.ok /\ At(s, c) = ":" THEN ParseValue(s, c + 1) ELSE ParseFail
        e == SkipWs(s, r.next)
    IN  IF ~r.ok THEN ParseFail
        ELSE IF At(s, e) = "," THEN ParseMembers(s, e + 1, MapInsert(obj, key.v.s, r.v))
        ELSE IF At(s, e) = "}" THEN ParseOk(MapInsert(obj, key.v.s, r.v), e + 1)
        ELSE ParseFail

\* from_slice: the bytes must be UTF-8 and hold exactly one JSON value.
from_slice(bytes) ==
    LET r == IF ValidUtf8From(bytes, 1) THEN ParseValue(bytes, 1) ELSE ParseFail
    IN  IF r.ok /\ SkipWs(bytes, r.next) > Len(bytes)
        THEN [ok |-> TRUE, v |-> r.v]
        ELSE [ok |-> FALSE]

\* ------------------------------------------------ rumqttc::matches (topics)

RECURSIVE MatchFrom(_, _, _)
MatchFrom(topics, filters, i) ==
    IF i > Len(filters) THEN Len(topics) < i
    ELSE IF filters[i] = <<"#">> THEN TRUE
    ELSE IF i > Len(topics) THEN FALSE
    ELSE IF filters[i] = <<"+">> \/ filters[i] = topics[i]
         THEN MatchFrom(topics, filters, i + 1)
    ELSE FALSE

\* A topic matches a filter level by level: "+" is any one level, a final
\* "#" any number of levels, every other level is literal.
matches(topic, filter) == MatchFrom(Split(topic, "/"), Split(filter, "/"), 1)

\* ------------------------------------------------- influxdb_rs Value, Point

\* enum Value of influxdb_rs: a record whose t names the variant.
DBBoolean(b) == [t |-> "Boolean", b |-> b]

\* An f64, counted in tenths.
DBFloat(n) == [t |-> "Float", n |-> n]

DBString(s) == [t |-> "String", s |-> s]

\* Point::new(measurement): no fields, no tags.
PointNew(name) == [measurement |-> name, fields |-> <<>>, tags |-> <<>>]

MapPut(m, name, value) ==
    [x \in DOMAIN m \cup {name} |-> IF x = name THEN value ELSE m[x]]

add_field(point, name, value) ==
    [point EXCEPT !.fields = MapPut(point.fields, name, value)]

add_tag(point, name, value) ==
    [point EXCEPT !.tags = MapPut(point.tags, name, value)]

\* ------------------------------------------------------------ configuration

Some(s) == [some |-> TRUE, v |-> s]

None == [some |-> FALSE]

\* struct JsonField; dst_variant is "Field" when the file does not give it.
JsonField(src_path, dst_variant, dst_name) ==
    [src_path |-> src_path, dst_variant |-> dst_variant, dst_name |-> dst_name]

\* enum Fields, tagged by type.
SingleText(dst_variant, dst_name) ==
    [type |-> "single_text", dst_variant |-> dst_variant, dst_name |-> dst_name]

Json(fields) == [type |-> "json", fields |-> fields]

Entry(src_topic, dst_name, fields) ==
    [src_topic |-> src_topic, dst_name |-> dst_name, fields |-> fields]

\* -------------------------------------------------------------- extraction

\* write_to, were both arms to call add_field.
WriteToTagAsField(variant, name, value, point) == add_field(point, name, value)

\* DstVariant::write_to
write_to(variant, name, value, point) ==
    IF variant = "Field" THEN add_field(point, name, value)
    ELSE add_tag(point, name, value)

\* JsonField::src_path_parts
src_path_parts(field) == Split(field.src_path, ".")

\* json_to_influxdb, were an integer literal to stay an integer.
JsonToInfluxdbIntegers(value) ==
    CASE value.k = "null" -> [panic |-> TRUE]
      [] value.k = "bool" -> [panic |-> FALSE, v |-> DBBoolean(value.b)]
      [] value.k = "number" ->
            [panic |-> FALSE,
             v |-> IF value.fl THEN DBFloat(value.n)
                   ELSE [t |-> "Integer", n |-> value.n \div 10]]
      [] value.k = "string" -> [panic |-> FALSE, v |-> DBString(value.s)]
      [] OTHER -> [panic |-> FALSE, v |-> DBString(to_string(value))]

\* json_to_influxdb; panic is the unimplemented!() of Value::Null.
json_to_influxdb(value) ==
    CASE value.k = "null" -> [panic |-> TRUE]
      [] value.k = "bool" -> [panic |-> FALSE, v |-> DBBoolean(value.b)]
      [] value.k = "number" -> [panic |-> FALSE, v |-> DBFloat(value.n)]
      [] value.k = "string" -> [panic |-> FALSE, v |-> DBString(value.s)]
      [] value.k = "array" -> [panic |-> FALSE, v |-> DBString(to_string(value))]
      [] value.k = "object" -> [panic |-> FALSE, v |-> DBString(to_string(value))]

\* The step, were array indexes to count from 1.
PathStepOneBased(value, p) ==
    IF value.k = "array"
    THEN LET i == ParseUsize(p)
         IN  IF i.ok /\ i.v >= 1 /\ i.v <= Len(value.items) THEN value.items[i.v]
             ELSE value
    ELSE IF value.k = "object" /\ HasKey(value, p) THEN GetKey(value, p)
    ELSE value

\* The step, were a segment that cannot be applied to lose the value.
PathStepFailing(value, p) ==
    IF value.k = "array"
    THEN LET i == ParseUsize(p)
         IN  IF i.ok /\ i.v < Len(value.items) THEN value.items[i.v + 1] ELSE JNull
    ELSE IF value.k = "object" /\ HasKey(value, p) THEN GetKey(value, p)
    ELSE JNull

\* One turn of the loop over the path parts: the value after part p.
PathStep(value, p) ==
    IF value.k = "array"
    THEN LET i == ParseUsize(p)
         IN  IF i.ok /\ i.v < Len(value.items) THEN value.items[i.v + 1] ELSE value
    ELSE IF value.k = "object"
         THEN IF HasKey(value, p) THEN GetKey(value, p) ELSE value
    ELSE value

RECURSIVE ResolveFrom(_, _, _)
ResolveFrom(value, parts, i) ==
    IF i > Len(parts) THEN value
    ELSE ResolveFrom(PathStep(value, parts[i]), parts, i + 1)

\* The name, were dst_name ignored.
DstNameAlwaysPath(field) == field.src_path

\* field.dst_name.as_ref().unwrap_or(&field.src_path)
DstName(field) == IF field.dst_name.some THEN field.dst_name.v ELSE field.src_path

\* A call of write_to, as extract makes it.
Call(name, variant, value) == [name |-> name, variant |-> variant, value |-> value]

ExtractStart(point) ==
    [panic |-> "none", point |-> point, resolved |-> <<>>, emitted |-> <<>>]

\* The loop over the fields of a json entry, from field i on.
RECURSIVE ExtractFields(_, _, _, _)
ExtractFields(fields, i, doc, acc) ==
    IF i > Len(fields) THEN acc
    ELSE LET field == fields[i]
             value == ResolveFrom(doc, src_path_parts(field), 1)
             db == json_to_influxdb(value)
         IN  IF db.panic
             THEN [acc EXCEPT !.panic = "null", !.resolved = Append(@, value)]
             ELSE ExtractFields(fields, i + 1, doc,
                    [acc EXCEPT
                       !.point = write_to(field.dst_variant, DstName(field), db.v, @),
                       !.resolved = Append(@, value),
                       !.emitted = Append(@, Call(DstName(field), field.dst_variant, db.v))])

\* Fields::extract: the point with the values written, or the panic that ends
\* the call; resolved holds the value each path led to, emitted the calls of
\* write_to in the order they were made.
extract(fields, value, point) ==
    IF fields.type = "single_text"
    THEN LET text == from_utf8(value)
         IN  IF ~text.ok THEN [ExtractStart(point) EXCEPT !.panic = "utf8"]
             ELSE [ExtractStart(point) EXCEPT
                     !.point = write_to(fields.dst_variant, fields.dst_name,
                                        DBString(text.v), point),
                     !.emitted = <<Call(fields.dst_name, fields.dst_variant,
                                        DBString(text.v))>>]
    ELSE LET doc == from_slice(value)
         IN  IF ~doc.ok THEN [ExtractStart(point) EXCEPT !.panic = "json"]
             ELSE ExtractFields(fields.fields, 1, doc.v, ExtractStart(point))

\* ------------------------------------------------- configurations, messages

Q == Quote

PathABZero == <<"a", ".", "b", ".", "0">>

EntryPool ==
    { Entry(<<"a", "/", "+">>, <<"m", "1">>,
            Json(<< JsonField(PathABZero, "Field", None),
                    JsonField(<<"a", ".", "x">>, "Tag", Some(<<"t">>)),
                    JsonField(<<"z", ".", "1">>, "Field", None),
                    JsonField(<<"+", "1", ".", "0">>, "Tag", None),
                    JsonField(<<"z", ".", ".", "2", ".", "k">>, "Field", Some(<<"t">>)) >>)),
      Entry(<<"a", "/", "b">>, <<"m", "2">>, SingleText("Tag", <<"s">>)),
      Entry(<<"a", "/", "#">>, <<"m", "3">>,
            Json(<< JsonField(<<"u">>, "Tag", None),
                    JsonField(<<"v", ".", "0">>, "Field", Some(<<"n">>)),
                    JsonField(<<>>, "Field", Some(<<"n">>)) >>)) }

\* Every configuration file of at most MaxEntries different entries of the
\* pool, in every order.
Configs ==
    UNION {{c \in [1..n -> EntryPool] : \A i, j \in 1..n : c[i] = c[j] => i = j} :
           n \in 0..MaxEntries}

Topics == { <<"a", "/", "b">>, <<"a", "/", "c", "/", "d">>, <<"q">> }

DocAB == <<"{", Q, "a", Q, ":", "{", Q, "b", Q, ":", "[", "1", "0", ",", "2", "0", "]", "}", "}">>

Payloads ==
    { DocAB,
      <<"{", Q, "v", Q, ":", "2", "1", ".", "5", ",", " ", Q, "u", Q, ":", Q, "C", Q, "}">>,
      <<"{", Q, "z", Q, ":", "[", "5", ",", "5", ".", "0", ",", Q, "5", Q, "]", ",",
        Q, Q, ":", "t", "r", "u", "e", "}">>,
      <<"{", Q, "u", Q, ":", Q, "C", Q, ",", Q, "v", Q, ":", "n", "u", "l", "l", "}">>,
      <<"[", "-", "1", ",", "[", "2", ",", "f", "a", "l", "s", "e", "]", "]">>,
      <<"xC3", "xA9">>,
      <<"xFF">> }

\* -------------------------------------------------------------------- state

VARIABLES
    entries,    \* configuration.entries, read once at start
    panic,      \* "none" while the process runs, else what it panicked on
    events,     \* notifications polled so far
    outcome,    \* what the loop did with the last notification
    topic,      \* topic of the publish, when the notification was one
    payload,    \* its payload
    matched,    \* index of the entry found for it, 0 when none matched
    point,      \* the point extracted from it
    resolved,   \* per field, the JSON value its path led to
    emitted,    \* the calls of write_to made for it, in order
    attempts,   \* calls of influxdb.write_point, all notifications together
    errLog      \* "Failed to query InfluxDB" lines logged

vars == <<entries, panic, events, outcome, topic, payload, matched, point,
          resolved, emitted, attempts, errLog>>

NoPoint == PointNew(<<>>)

\* The locals of an iteration that handles no publish.
NoPublish ==
    /\ topic' = <<>>
    /\ payload' = <<>>
    /\ matched' = 0
    /\ point' = NoPoint
    /\ resolved' = <<>>
    /\ emitted' = <<>>

Init ==
    /\ entries \in Configs
    /\ panic = "none"
    /\ events = 0
    /\ outcome = "idle"
    /\ topic = <<>>
    /\ payload = <<>>
    /\ matched = 0
    /\ point = NoPoint
    /\ resolved = <<>>
    /\ emitted = <<>>
    /\ attempts = 0
    /\ errLog = 0

\* find, were the last matching entry to win.
FindEntryLast(es, t) ==
    IF \E i \in 1..Len(es) : matches(t, es[i].src_topic)
    THEN CHOOSE i \in 1..Len(es) :
            /\ matches(t, es[i].src_topic)
            /\ \A j \in (i + 1)..Len(es) : ~matches(t, es[j].src_topic)
    ELSE 0

\* find, were the first entry to take what nothing matches.
FindEntryOrFirst(es, t) ==
    IF \E i \in 1..Len(es) : matches(t, es[i].src_topic)
    THEN CHOOSE i \in 1..Len(es) :
            /\ matches(t, es[i].src_topic)
            /\ \A j \in 1..(i - 1) : ~matches(t, es[j].src_topic)
    ELSE IF Len(es) > 0 THEN 1 ELSE 0

\* configuration.entries.iter().find(|e| matches(&topic, &e.src_topic)):
\* the index of the entry found, 0 for None.
FindEntry(es, t) ==
    IF \E i \in 1..Len(es) : matches(t, es[i].src_topic)
    THEN CHOOSE i \in 1..Len(es) :
            /\ matches(t, es[i].src_topic)
            /\ \A j \in 1..(i - 1) : ~matches(t, es[j].src_topic)
    ELSE 0

\* write_point, were a failed call tried once more.
WritePointRetry(ok, a, e) ==
    [attempts |-> IF ok THEN a + 1 ELSE a + 2, errLog |-> IF ok THEN e ELSE e + 1]

\* influxdb.write_point(point, ..).await and the if let Err around it: one
\* call, and an error line when it failed.
WritePoint(ok, a, e) ==
    [attempts |-> a + 1, errLog |-> IF ok THEN e ELSE e + 1]

Polling == panic = "none" /\ events < MaxEvents

\* mqtt_eventloop.poll() returned an error: the unwrap panics.
PollError ==
    /\ Polling
    /\ panic' = "poll"
    /\ outcome' = "poll_failed"
    /\ NoPublish
    /\ UNCHANGED <<entries, events, attempts, errLog>>

\* Incoming ConnAck with ConnectReturnCode::Success: "Connected to MQTT".
ConnAck ==
    /\ Polling
    /\ events' = events + 1
    /\ outcome' = "connected"
    /\ NoPublish
    /\ UNCHANGED <<entries, panic, attempts, errLog>>

\* Any other incoming packet, or an outgoing one.
OtherEvent ==
    /\ Polling
    /\ events' = events + 1
    /\ outcome' = "ignored"
    /\ NoPublish
    /\ UNCHANGED <<entries, panic, attempts, errLog>>

\* Incoming Publish of payload p on topic t; ok is whether write_point
\* succeeds, should it be called.
Publish(t, p, ok) ==
    /\ Polling
    /\ events' = events + 1
    /\ topic' = t
    /\ payload' = p
    /\ LET i == FindEntry(entries, t)
           r == extract(entries[i].fields, p, PointNew(entries[i].dst_name))
           w == WritePoint(ok, attempts, errLog)
       IN  /\ matched' = i
           /\ IF i = 0
              THEN /\ ok
                   /\ outcome' = "dropped"
                   /\ point' = NoPoint
                   /\ resolved' = <<>>
                   /\ emitted' = <<>>
                   /\ UNCHANGED <<panic, attempts, errLog>>
              ELSE IF r.panic # "none"
              THEN /\ ok
                   /\ outcome' = "panicked"
                   /\ panic' = r.panic
                   /\ point' = NoPoint
                   /\ resolved' = r.resolved
                   /\ emitted' = r.emitted
                   /\ UNCHANGED <<attempts, errLog>>
              ELSE /\ outcome' = IF ok THEN "written" ELSE "write_failed"
                   /\ point' = r.point
                   /\ resolved' = r.resolved
                   /\ emitted' = r.emitted
                   /\ attempts' = w.attempts
                   /\ errLog' = w.errLog
                   /\ UNCHANGED panic
    /\ UNCHANGED entries

Next ==
    \/ PollError
    \/ ConnAck
    \/ OtherEvent
    \/ \E t \in Topics, p \in Payloads, ok \in BOOLEAN : Publish(t, p, ok)

Spec == Init /\ [][Next]_vars

\* ------------------------------------------------------------------ claims

PublishOutcomes == {"dropped", "panicked", "written", "write_failed"}

\* The last notification was a publish whose point went to write_point.
Handled == outcome \in {"written", "write_failed"}

Matching(t) == {j \in 1..Len(entries) : matches(t, entries[j].src_topic)}

\* The last notification was a publish that a json entry took and whose
\* payload parsed.
JsonParsed ==
    /\ outcome \in PublishOutcomes
    /\ matched # 0
    /\ entries[matched].fields.type = "json"
    /\ from_slice(payload).ok

\* C1: the entry that handles a publish is the matching entry of lowest
\* index: none when no entry matches, never one that a matching entry
\* precedes, and the point carries that entry's dst_name.
C1_FirstMatchWins ==
    outcome \in PublishOutcomes =>
        IF Matching(topic) = {} THEN matched = 0
        ELSE /\ matched \in Matching(topic)
             /\ \A j \in Matching(topic) : matched <= j
             /\ Handled => point.measurement = entries[matched].dst_name

\* a/b arrives at the configuration [a/+, a/b] and the first entry handles it.
C1_Witness ==
    /\ Len(entries) = 2
    /\ entries[1].src_topic = <<"a", "/", "+">>
    /\ entries[2].src_topic = <<"a", "/", "b">>
    /\ topic = <<"a", "/", "b">>
    /\ Handled
    /\ matched = 1

\* The payload of the last publish does not decode for the entry found.
DecodeFails ==
    /\ outcome \in PublishOutcomes
    /\ matched # 0
    /\ IF entries[matched].fields.type = "single_text"
       THEN ~ValidUtf8From(payload, 1)
       ELSE ~from_slice(payload).ok

\* C2: a payload that is not UTF-8 (single_text) or not JSON (json) costs
\* its own message only: no point is produced and the process keeps running.
C2_DecodeFailureIsLocal ==
    DecodeFails => /\ panic = "none"
                   /\ point = NoPoint
                   /\ outcome # "panicked"

\* C3: a field whose path leads to JSON null is skipped alone: the process
\* keeps running, every field of the entry is still visited, and the point
\* with the other fields goes to write_point.
C3_NullFieldSkipped ==
    (JsonParsed /\ \E i \in 1..Len(resolved) : resolved[i].k = "null") =>
        /\ panic = "none"
        /\ Handled
        /\ Len(resolved) = Len(entries[matched].fields.fields)
        /\ Len(emitted) = Cardinality({i \in 1..Len(resolved) : resolved[i].k # "null"})

\* C4: a publish on a topic that no entry matches is dropped: no point is
\* built, write_point is not called, nothing is logged as an error, and the
\* loop keeps running.
C4_NoMatchDropped ==
    [][(/\ events' = events + 1
        /\ outcome' \in PublishOutcomes
        /\ Matching(topic') = {})
       => /\ outcome' = "dropped"
          /\ matched' = 0
          /\ point' = NoPoint
          /\ emitted' = <<>>
          /\ attempts' = attempts
          /\ errLog' = errLog
          /\ panic' = "none"]_vars

\* A publish was dropped although the configuration has entries, after an
\* earlier publish was written.
C4_Witness ==
    /\ outcome = "dropped"
    /\ Len(entries) > 0
    /\ attempts = 1
    /\ events = 2

\* The document of the last publish and the fields of the entry that took it.
Doc == from_slice(payload).v

FieldsOf == entries[matched].fields.fields

RECURSIVE SubValues(_)
SubValues(v) ==
    {v} \cup (IF v.k \in {"array", "object"}
              THEN UNION {SubValues(v.items[i]) : i \in 1..Len(v.items)}
              ELSE {})

\* A segment descends into an object that has it as a key and into an array
\* that has it as an index; everywhere else the value stays.
LenientStep(cur, seg) ==
    IF cur.k = "object" /\ \E i \in 1..Len(cur.keys) : cur.keys[i] = seg
    THEN cur.items[CHOOSE i \in 1..Len(cur.keys) : cur.keys[i] = seg]
    ELSE IF cur.k = "array" /\ ParseUsize(seg).ok /\ ParseUsize(seg).v < Len(cur.items)
    THEN cur.items[ParseUsize(seg).v + 1]
    ELSE cur

\* The same, with an empty segment never descending.
SkipEmptyStep(cur, seg) == IF seg = <<>> THEN cur ELSE LenientStep(cur, seg)

RECURSIVE Reached(_, _, _)
Reached(doc, parts, n) ==
    IF n = 0 THEN doc ELSE LenientStep(Reached(doc, parts, n - 1), parts[n])

RECURSIVE ReachedSkipEmpty(_, _, _)
ReachedSkipEmpty(doc, parts, n) ==
    IF n = 0 THEN doc
    ELSE SkipEmptyStep(ReachedSkipEmpty(doc, parts, n - 1), parts[n])

\* Every field up to the first one that led to null has a resolved value.
ResolutionNeverFails ==
    /\ Len(resolved) <= Len(FieldsOf)
    /\ \/ Len(resolved) = Len(FieldsOf)
       \/ resolved[Len(resolved)].k = "null"
    /\ \A i \in 1..Len(resolved) : resolved[i] \in SubValues(Doc)

\* C5, as amended: resolution never fails and folds the segments over the
\* document; a segment descends exactly when the current value is an object
\* with that key (the empty key included) or an array with that index.
C5_LenientFold ==
    JsonParsed =>
        /\ ResolutionNeverFails
        /\ \A i \in 1..Len(resolved) :
              LET parts == Split(FieldsOf[i].src_path, ".")
              IN  resolved[i] = Reached(Doc, parts, Len(parts))

\* C5 as stated: the same, and an empty segment always leaves the value.
C5_EmptySegmentSkipped ==
    JsonParsed =>
        /\ ResolutionNeverFails
        /\ \A i \in 1..Len(resolved) :
              LET parts == Split(FieldsOf[i].src_path, ".")
              IN  resolved[i] = ReachedSkipEmpty(Doc, parts, Len(parts))

\* The five paths of the a/+ entry on [-1,[2,false]]: segments that are no
\* index ("a", "z", "k"), an empty segment, an index out of range ("2") and
\* indexes in range ("0", "1", "+1"), one of them below another.
C5_Witness ==
    /\ JsonParsed
    /\ Doc.k = "array"
    /\ Len(resolved) = 5
    /\ resolved[1] = JInt(-1)
    /\ resolved[2] = Doc
    /\ resolved[3] = Doc.items[2]
    /\ resolved[4] = JInt(2)
    /\ resolved[5] = Doc

\* C6 as stated: a.b.0 on {"a":{"b":[10,20]}} leads to 20.
C6_PathABZeroIs20 ==
    (JsonParsed /\ payload = DocAB /\ FieldsOf[1].src_path = PathABZero)
        => resolved[1] = JInt(20)

\* C6, as amended: a.b.0 on {"a":{"b":[10,20]}} leads to 10, the element of
\* index 0.
C6_PathABZeroIs10 ==
    (JsonParsed /\ payload = DocAB /\ FieldsOf[1].src_path = PathABZero)
        => /\ Len(resolved) >= 1
           /\ resolved[1] = JInt(10)

C6_Witness ==
    /\ JsonParsed
    /\ payload = DocAB
    /\ FieldsOf[1].src_path = PathABZero
    /\ Handled
    /\ emitted[1].value = DBFloat(100)

\* The last call of write_to for name on the side variant, 0 when none.
LastCall(name, variant) ==
    LET I == {i \in 1..Len(emitted) :
                emitted[i].name = name /\ emitted[i].variant = variant}
    IN  IF I = {} THEN 0 ELSE CHOOSE i \in I : \A j \in I : j <= i

SideOf(variant) == IF variant = "Field" THEN point.fields ELSE point.tags

\* C7: every value lands on the side of its DstVariant only, and of two
\* values of one name on one side the later one stays.
C7_OneSideLastWins ==
    Handled =>
        \A variant \in {"Field", "Tag"} :
            /\ DOMAIN SideOf(variant) =
                  {emitted[i].name : i \in {j \in 1..Len(emitted) :
                                               emitted[j].variant = variant}}
            /\ \A name \in DOMAIN SideOf(variant) :
                  SideOf(variant)[name] = emitted[LastCall(name, variant)].value

\* Two different values of one name went to the fields, and a tag was written.
C7_Witness ==
    /\ Handled
    /\ \E i, j \in 1..Len(emitted) :
          /\ i < j
          /\ emitted[i].name = emitted[j].name
          /\ emitted[i].variant = "Field"
          /\ emitted[j].variant = "Field"
          /\ emitted[i].value # emitted[j].value
          /\ point.fields[emitted[j].name] = emitted[j].value
    /\ DOMAIN point.tags # {}

\* C8: a boolean becomes Boolean, every number Float with its value, a
\* string String with its text, an array or object String with a JSON text
\* that parses back to it.
C8_CoercionByKind ==
    JsonParsed =>
        \A i \in 1..Len(emitted) :
            LET v == resolved[i]
                d == emitted[i].value
            IN  CASE v.k = "bool" -> d = [t |-> "Boolean", b |-> v.b]
                  [] v.k = "number" -> d = [t |-> "Float", n |-> v.n]
                  [] v.k = "string" -> d = [t |-> "String", s |-> v.s]
                  [] v.k \in {"array", "object"} ->
                        /\ d.t = "String"
                        /\ from_slice(d.s) = [ok |-> TRUE, v |-> v]
                  [] OTHER -> FALSE

\* One message gave a number written as an integer, which became a Float,
\* and an array, which became a String.
C8_Witness ==
    /\ JsonParsed
    /\ Handled
    /\ \E i \in 1..Len(emitted) :
          resolved[i].k = "number" /\ ~resolved[i].fl /\ emitted[i].value.t = "Float"
    /\ \E i \in 1..Len(emitted) :
          resolved[i].k = "array" /\ emitted[i].value.t = "String"

\* C9: when the payload parses and no path leads to null, extract makes one
\* call of write_to per field, in the order of the fields, named dst_name
\* when the field has one and src_path when not.
C9_OneValuePerField ==
    (/\ outcome \in PublishOutcomes
     /\ matched # 0
     /\ entries[matched].fields.type = "json"
     /\ from_slice(payload).ok
     /\ \A i \in 1..Len(FieldsOf) :
           LET parts == Split(FieldsOf[i].src_path, ".")
           IN  Reached(Doc, parts, Len(parts)).k # "null")
    => /\ Handled
       /\ Len(emitted) = Len(FieldsOf)
       /\ \A i \in 1..Len(FieldsOf) :
             /\ emitted[i].name = IF FieldsOf[i].dst_name.some
                                  THEN FieldsOf[i].dst_name.v
                                  ELSE FieldsOf[i].src_path
             /\ emitted[i].variant = FieldsOf[i].dst_variant
             /\ emitted[i].value = json_to_influxdb(resolved[i]).v

\* A json entry with named and unnamed fields produced its point.
C9_Witness ==
    /\ JsonParsed
    /\ Handled
    /\ Len(emitted) = 5
    /\ \E i \in 1..5 : ~FieldsOf[i].dst_name.some /\ emitted[i].name = FieldsOf[i].src_path
    /\ \E i \in 1..5 : FieldsOf[i].dst_name.some /\ emitted[i].name = FieldsOf[i].dst_name.v

\* C10: a publish that an entry matches and whose extraction succeeds makes
\* exactly one call of write_point; a failed call adds one error line and
\* nothing else: no second call, no panic.
C10_OneWritePerMessage ==
    [][(/\ events' = events + 1
        /\ outcome' \in PublishOutcomes
        /\ matched' # 0
        /\ ~(\E i \in 1..Len(resolved') : resolved'[i].k = "null")
        /\ IF entries[matched'].fields.type = "single_text"
           THEN ValidUtf8From(payload', 1)
           ELSE from_slice(payload').ok)
       => /\ attempts' = attempts + 1
          /\ outcome' \in {"written", "write_failed"}
          /\ errLog' = errLog + (IF outcome' = "write_failed" THEN 1 ELSE 0)
          /\ panic' = "none"]_vars

\* A point was written after the write of an earlier one had failed.
C10_Witness ==
    /\ outcome = "written"
    /\ attempts = 2
    /\ errLog = 1
    /\ panic = "none"

====
